---- MODULE Spec2Model ----
(***************************************************************************)
(* Model of the OpenAPI import handler of http2mcp                         *)
(* (internal/apiserver/handler/openapi.go, OpenAPI.HandleImport).          *)
(*                                                                         *)
(* Every HTTP request is one invocation of HandleImport.  Invocations run  *)
(* concurrently (one goroutine per request); the only state they share is  *)
(* the store and the notifier injected by NewOpenAPI.  An invocation is    *)
(* split at its calls to the shared collaborators: receiving the form,     *)
(* converting, store.Create, notifier.NotifyUpdate.                        *)
(*                                                                         *)
(* The converter (pkg/openapi), the store (internal/mcp/storage) and the   *)
(* notifier (internal/mcp/storage/notifier) are only imported by the       *)
(* handler; they are modelled from their documented contracts.             *)
(***************************************************************************)
EXTENDS Naturals, Sequences, FiniteSets

\* Number of HandleImport invocations (HTTP requests) of a run.
MaxInv == 2

Invs == 1..MaxInv

----------------------------------------------------------------------------
\* Values

\* Well-formed OpenAPI documents and malformed uploads.
ValidDocs == {"docA", "docB"}
MalformedDocs == {"bad"}
Contents == ValidDocs \cup MalformedDocs

\* Values of the tenantId and prefix form fields; "" is an absent field.
Tenants == {"", "acme"}
Prefixes == {"", "/v1"}

\* The converter's own addressing convention.
DefaultTenant == "default"
DefaultPrefix == "/gen"

\* The name the converter derives from a document.
NameOf(c) == IF c = "docA" THEN "serverA" ELSE "serverB"
Names == {NameOf(c) : c \in ValidDocs}

\* *config.MCPConfig; NoConfig is the nil pointer.
NoConfig == [name |-> "", tenant |-> "", prefix |-> ""]
Configs == [name : Names, tenant : Tenants \cup {DefaultTenant},
            prefix : Prefixes \cup {DefaultPrefix}]

NoErr == "nil"
ErrMalformed == "malformed document"
ErrCollision == "already exists"
ErrUnavailable == "backend unavailable"
ErrValidation == "validation rejected"
ErrNotify == "notify failed"
ErrCanceled == "context canceled"
ErrFormFile == "no file"
ErrOpen == "open failed"
ErrRead == "read failed"
ErrEOF == "EOF"

\* Faults of the storage backend that do not depend on the stored names.
StoreFaults == {NoErr, ErrUnavailable, ErrValidation}
\* The notifier fails on its own, or because the context it was handed was
\* cancelled while it ran.
NotifyFaults == {NoErr, ErrNotify, ErrCanceled}

----------------------------------------------------------------------------
\* State

VARIABLES
    pc,         \* position of each invocation in HandleImport
    content,    \* the bytes read from the uploaded file
    tenant,     \* c.PostForm("tenantId")
    prefix,     \* c.PostForm("prefix")
    config,     \* the local variable config
    convLog,    \* calls each invocation made to the converter, with their results
    resp,       \* the response written to the caller
    store,      \* the configuration store: name -> stored configuration
    createLog,  \* calls each invocation made to store.Create, with their errors
    notifyLog,  \* calls each invocation made to notifier.NotifyUpdate
    doneBefore  \* the invocations that had ended, with a configuration stored,
                \* when this one's request was read

vars == <<pc, content, tenant, prefix, config, convLog, resp, store,
          createLog, notifyLog, doneBefore>>

----------------------------------------------------------------------------
\* The collaborators HandleImport calls

\* openapi.Converter.ConvertWithOptions: the name comes from the document, the
\* addressing fields are the supplied values verbatim; a malformed document
\* yields an error and no configuration.
ConvertWithOptions(c, t, p) ==
    IF c \in ValidDocs
    THEN [cfg |-> [name |-> NameOf(c), tenant |-> t, prefix |-> p], err |-> NoErr]
    ELSE [cfg |-> NoConfig, err |-> ErrMalformed]

\* openapi.Converter.Convert: the converter's default addressing.
Convert(c) ==
    IF c \in ValidDocs
    THEN [cfg |-> [name |-> NameOf(c), tenant |-> DefaultTenant,
                   prefix |-> DefaultPrefix], err |-> NoErr]
    ELSE [cfg |-> NoConfig, err |-> ErrMalformed]

\* The result of one recorded converter call.
CallConverter(call) ==
    IF call.fn = "Convert"
    THEN Convert(call.args[1])
    ELSE ConvertWithOptions(call.args[1], call.args[2], call.args[3])

\* storage.Store.Create: the error it returns.  A backend fault fails the
\* call; otherwise a name that is already stored is a collision.
StoreCreateErr(st, cfg, fault) ==
    IF fault # NoErr THEN fault
    ELSE IF st[cfg.name] # NoConfig THEN ErrCollision
    ELSE NoErr

\* storage.Store.Create: the store after the call.
StoreCreate(st, cfg, fault) ==
    IF StoreCreateErr(st, cfg, fault) = NoErr
    THEN [st EXCEPT ![cfg.name] = cfg]
    ELSE st

----------------------------------------------------------------------------
\* HandleImport

\* i18n.RespondWithError(c, kind.WithParam("Reason", text + err.Error())):
\* an error response carries the error kind and the reason, nothing else.
RespondWithError(kind, text, err) ==
    [kind |-> kind, text |-> text, err |-> err, config |-> NoConfig]

NoResp == [kind |-> "", text |-> "", err |-> NoErr, config |-> NoConfig]

\* c.Request.Context(): the context of the caller's request.
RequestContext(i) == [request |-> i, timeout |-> "none"]

\* Line 94: the context handed to store.Create.
CreateCtx(i) == RequestContext(i)

\* A notification sent under a context the handler made itself.
NotifyCtxBackground(i) == [request |-> 0, timeout |-> "none"]

\* Line 104: the context handed to notifier.NotifyUpdate.
NotifyCtx(i) == RequestContext(i)

\* A default test that fires when either form field is empty.
UseDefaultEither(t, p) == t = "" \/ p = ""

\* Line 78: the default conversion is used when both form fields are empty.
UseDefault(t, p) == t = "" /\ p = ""

\* A converter call that hands the two form fields over in the wrong order.
ConverterCallSwapped(c, t, p) ==
    IF t = "" /\ p = ""
    THEN [fn |-> "Convert", args |-> <<c>>]
    ELSE [fn |-> "ConvertWithOptions", args |-> <<c, p, t>>]

\* Lines 78-82: the converter entry point called, with its arguments.
ConverterCall(c, t, p) ==
    IF UseDefault(t, p)
    THEN [fn |-> "Convert", args |-> <<c>>]
    ELSE [fn |-> "ConvertWithOptions", args |-> <<c, t, p>>]

\* A conversion error path whose reason depends on what the store holds.
ConvertErrRespStoreDependent(err) ==
    RespondWithError("ErrBadRequest", "Failed to convert OpenAPI specification: ",
                     IF \E n \in Names : store[n] # NoConfig THEN ErrCollision ELSE err)

\* Lines 83-87: the response to a conversion error.
ConvertErrResp(err) ==
    RespondWithError("ErrBadRequest", "Failed to convert OpenAPI specification: ", err)

\* A conversion error path that does not return.
AfterConvertNoReturn(err) == "Persisting"

\* Lines 83-87: a conversion error ends the invocation.
AfterConvert(err) == IF err # NoErr THEN "Done" ELSE "Persisting"

\* A handler that keeps the converted configuration in a field shared by all
\* requests: Create gets what the first request left there.
CreateArgShared(cfg) == IF config[1] # NoConfig THEN config[1] ELSE cfg

\* Line 94: the configuration handed to store.Create.
CreateArg(cfg) == cfg

\* A Create error path that logs the error and answers with the success response.
CreateErrRespSwallowed(err) ==
    [kind |-> "Created", text |-> "SuccessOpenAPIImported", err |-> NoErr,
     config |-> NoConfig]

\* Lines 94-100: the response to an error of store.Create.
CreateErrResp(err) ==
    RespondWithError("ErrInternalServer", "Failed to create MCP server: ", err)

\* A Create error path that tries the creation again.
AfterCreateRetry(err) == IF err # NoErr THEN "Persisting" ELSE "Notifying"

\* A Create error path that does not return.
AfterCreateNoReturn(err) == "Notifying"

\* Lines 94-100: an error of store.Create ends the invocation.
AfterCreate(err) == IF err # NoErr THEN "Done" ELSE "Notifying"

\* A notification built with the tenant reset to the default.
NotifyArgDefaultTenant(cfg) == [cfg EXCEPT !.tenant = DefaultTenant]

\* Line 104: the configuration handed to notifier.NotifyUpdate.
NotifyArg(cfg) == cfg

\* A NotifyUpdate error path that logs the error and answers with success.
NotifyErrRespSwallowed(cfg, err) ==
    [kind |-> "Created", text |-> "SuccessOpenAPIImported", err |-> NoErr,
     config |-> cfg]

\* Lines 104-110: the response to an error of notifier.NotifyUpdate.
NotifyErrResp(cfg, err) ==
    RespondWithError("ErrInternalServer", "Failed to notify gateway: ", err)

\* An error path of NotifyUpdate that rolls the stored configuration back.
StoreOnNotifyErrRollback(st, cfg) == [st EXCEPT ![cfg.name] = NoConfig]

\* Lines 104-110: the error path of NotifyUpdate makes no call to the store.
StoreOnNotifyErr(st, cfg) == st

\* Lines 115-118: the success response, with the configuration.
SuccessResp(cfg) ==
    [kind |-> "Created", text |-> "SuccessOpenAPIImported", err |-> NoErr,
     config |-> cfg]

\* The outcome a response stands for.
Outcome(r) ==
    IF r.kind = "Created" THEN "Imported"
    ELSE IF r.kind = "ErrBadRequest"
            /\ r.text = "Failed to convert OpenAPI specification: "
         THEN "Rejected"
    ELSE IF r.kind = "ErrInternalServer" /\ r.text = "Failed to create MCP server: "
         THEN "PersistenceFailed"
    ELSE IF r.kind = "ErrInternalServer" /\ r.text = "Failed to notify gateway: "
         THEN "NotificationFailed"
    ELSE IF r.kind = "" THEN "None"
    ELSE "TransportError"

----------------------------------------------------------------------------
\* Actions

Init ==
    /\ pc = [i \in Invs |-> "Start"]
    /\ content = [i \in Invs |-> ""]
    /\ tenant = [i \in Invs |-> ""]
    /\ prefix = [i \in Invs |-> ""]
    /\ config = [i \in Invs |-> NoConfig]
    /\ convLog = [i \in Invs |-> <<>>]
    /\ resp = [i \in Invs |-> NoResp]
    /\ store = [n \in Names |-> NoConfig]
    /\ createLog = [i \in Invs |-> <<>>]
    /\ notifyLog = [i \in Invs |-> <<>>]
    /\ doneBefore = [i \in Invs |-> {}]

\* Invocation j has ended and its store.Create had succeeded.
EndedStored(j) ==
    /\ pc[j] = "Done"
    /\ \E k \in DOMAIN createLog[j] : createLog[j][k].err = NoErr

\* Lines 37-42: the request has no file part.
FormFileFail(i) ==
    /\ pc[i] = "Start"
    /\ pc' = [pc EXCEPT ![i] = "Done"]
    /\ resp' = [resp EXCEPT ![i] =
                  RespondWithError("ErrBadRequest", "Failed to get file: ", ErrFormFile)]
    /\ UNCHANGED <<content, tenant, prefix, config, convLog, store, createLog, notifyLog,
                   doneBefore>>

\* Lines 49-56: the uploaded file cannot be opened.
OpenFail(i) ==
    /\ pc[i] = "Start"
    /\ pc' = [pc EXCEPT ![i] = "Done"]
    /\ resp' = [resp EXCEPT ![i] =
                  RespondWithError("ErrInternalServer", "Failed to open file: ", ErrOpen)]
    /\ UNCHANGED <<content, tenant, prefix, config, convLog, store, createLog, notifyLog,
                   doneBefore>>

\* Lines 59-67: reading the uploaded file fails.
ReadFail(i) ==
    /\ pc[i] = "Start"
    /\ pc' = [pc EXCEPT ![i] = "Done"]
    /\ resp' = [resp EXCEPT ![i] =
                  RespondWithError("ErrInternalServer", "Failed to read file: ", ErrRead)]
    /\ UNCHANGED <<content, tenant, prefix, config, convLog, store, createLog, notifyLog,
                   doneBefore>>

\* Lines 59-67: the file is empty (file.Size = 0), content has length 0, and
\* f.Read(content) reports io.EOF, as the reader of an uploaded part does at
\* its end.
ReadEmptyEOF(i) ==
    /\ pc[i] = "Start"
    /\ pc' = [pc EXCEPT ![i] = "Done"]
    /\ resp' = [resp EXCEPT ![i] =
                  RespondWithError("ErrInternalServer", "Failed to read file: ", ErrEOF)]
    /\ UNCHANGED <<content, tenant, prefix, config, convLog, store, createLog, notifyLog,
                   doneBefore>>

\* Lines 37-67: the file part is found, opened and read.
Receive(i, c) ==
    /\ pc[i] = "Start"
    /\ pc' = [pc EXCEPT ![i] = "Converting"]
    /\ content' = [content EXCEPT ![i] = c]
    /\ doneBefore' = [doneBefore EXCEPT ![i] = {j \in Invs : EndedStored(j)}]
    /\ UNCHANGED <<tenant, prefix, config, convLog, resp, store, createLog, notifyLog>>

\* Lines 69-90: the two form fields are taken, the document is converted, and
\* a conversion error is answered.
DoConvert(i, t, p) ==
    /\ pc[i] = "Converting"
    /\ tenant' = [tenant EXCEPT ![i] = t]
    /\ prefix' = [prefix EXCEPT ![i] = p]
    /\ LET call == ConverterCall(content[i], t, p)
           r == CallConverter(call)
       IN /\ convLog' = [convLog EXCEPT ![i] =
                           Append(@, [call |-> call, cfg |-> r.cfg, err |-> r.err])]
          /\ config' = [config EXCEPT ![i] = r.cfg]
          /\ pc' = [pc EXCEPT ![i] = AfterConvert(r.err)]
          /\ resp' = [resp EXCEPT ![i] =
                        IF r.err # NoErr THEN ConvertErrResp(r.err) ELSE @]
    /\ UNCHANGED <<content, store, createLog, notifyLog, doneBefore>>

\* Lines 92-100: store.Create and its error path.
DoCreate(i) ==
    /\ pc[i] = "Persisting"
    /\ \E fault \in StoreFaults :
         LET arg == CreateArg(config[i])
             err == StoreCreateErr(store, arg, fault)
         IN /\ createLog' = [createLog EXCEPT ![i] =
                  Append(@, [ctx |-> CreateCtx(i), cfg |-> arg, err |-> err])]
            /\ store' = StoreCreate(store, arg, fault)
            /\ pc' = [pc EXCEPT ![i] = AfterCreate(err)]
            /\ resp' = [resp EXCEPT ![i] =
                          IF err # NoErr THEN CreateErrResp(err) ELSE @]
    /\ UNCHANGED <<content, tenant, prefix, config, convLog, notifyLog, doneBefore>>

\* Lines 102-118: notifier.NotifyUpdate, its error path and the success response.
DoNotify(i) ==
    /\ pc[i] = "Notifying"
    /\ \E fault \in NotifyFaults :
         LET arg == NotifyArg(config[i])
         IN /\ notifyLog' = [notifyLog EXCEPT ![i] =
                  Append(@, [ctx |-> NotifyCtx(i), cfg |-> arg, err |-> fault])]
            /\ store' = IF fault # NoErr THEN StoreOnNotifyErr(store, config[i])
                        ELSE store
            /\ resp' = [resp EXCEPT ![i] =
                          IF fault # NoErr THEN NotifyErrResp(config[i], fault)
                          ELSE SuccessResp(config[i])]
    /\ pc' = [pc EXCEPT ![i] = "Done"]
    /\ UNCHANGED <<content, tenant, prefix, config, convLog, createLog, doneBefore>>

Next ==
    \/ \E i \in Invs : FormFileFail(i)
    \/ \E i \in Invs : OpenFail(i)
    \/ \E i \in Invs : ReadFail(i)
    \/ \E i \in Invs : ReadEmptyEOF(i)
    \/ \E i \in Invs, c \in Contents : Receive(i, c)
    \/ \E i \in Invs, t \in Tenants, p \in Prefixes : DoConvert(i, t, p)
    \/ \E i \in Invs : DoCreate(i)
    \/ \E i \in Invs : DoNotify(i)

Spec == Init /\ [][Next]_vars

\* The steps of invocation i once its request has been read.
Step(i) ==
    \/ \E t \in Tenants, p \in Prefixes : DoConvert(i, t, p)
    \/ DoCreate(i)
    \/ DoNotify(i)

\* The goroutine of a request that has been read keeps running, and every
\* call to the converter, the store and the notifier returns.
FairSpec == Spec /\ \A i \in Invs : WF_vars(Step(i))

----------------------------------------------------------------------------
\* Reading the logs

\* The positions of invocation i's calls in the logs of the store and notifier.
CreatesOf(i) == DOMAIN createLog[i]
NotifiesOf(i) == DOMAIN notifyLog[i]

\* Invocation i called the converter and the call returned an error.
ConversionFailed(i) == \E k \in DOMAIN convLog[i] : convLog[i][k].err # NoErr

\* Invocation i called the converter and the call returned a configuration.
ConversionSucceeded(i) == \E k \in DOMAIN convLog[i] : convLog[i][k].err = NoErr

CreateFailed(i) == \E k \in CreatesOf(i) : createLog[i][k].err # NoErr
CreateSucceeded(i) == \E k \in CreatesOf(i) : createLog[i][k].err = NoErr
NotifyFailed(i) == \E k \in NotifiesOf(i) : notifyLog[i][k].err # NoErr
NotifySucceeded(i) == \E k \in NotifiesOf(i) : notifyLog[i][k].err = NoErr

----------------------------------------------------------------------------
\* Claims

\* C1: an invocation whose conversion failed has ended with the outcome
\* Rejected and has called neither store.Create nor notifier.NotifyUpdate, so
\* it left no trace in the store or among the notifications.
C1_RejectedNoSideEffect ==
    \A i \in Invs :
        ConversionFailed(i) =>
            /\ pc[i] = "Done"
            /\ Outcome(resp[i]) = "Rejected"
            /\ CreatesOf(i) = {}
            /\ NotifiesOf(i) = {}
            /\ \A n \in Names : store[n] # NoConfig =>
                   \E j \in Invs \ {i} : \E k \in CreatesOf(j) :
                       createLog[j][k].cfg = store[n]

\* C1 witness: a conversion failed while another invocation had stored a
\* configuration and notified.
C1_Witness ==
    \E i, j \in Invs :
        /\ ConversionFailed(i)
        /\ content[i] \in MalformedDocs
        /\ CreateSucceeded(j)
        /\ NotifySucceeded(j)

\* C2: an invocation whose store.Create returned an error, whatever the
\* cause, has ended with the outcome PersistenceFailed and has never called
\* notifier.NotifyUpdate.
C2_PersistenceFailedNoNotify ==
    \A i \in Invs :
        (ConversionSucceeded(i) /\ CreateFailed(i)) =>
            /\ pc[i] = "Done"
            /\ Outcome(resp[i]) = "PersistenceFailed"
            /\ NotifiesOf(i) = {}

\* C2 witness: a conversion succeeded and the Create that followed failed on
\* a name collision.
C2_Witness ==
    \E i \in Invs :
        /\ pc[i] = "Done"
        /\ ConversionSucceeded(i)
        /\ \E k \in CreatesOf(i) : createLog[i][k].err = ErrCollision

\* C3: an invocation whose Create succeeded and whose NotifyUpdate failed
\* answers NotificationFailed, and the answer carries the configuration that
\* Create received.
C3_NotificationFailedCarriesConfig ==
    \A i \in Invs :
        (pc[i] = "Done" /\ CreateSucceeded(i) /\ NotifyFailed(i)) =>
            /\ Outcome(resp[i]) = "NotificationFailed"
            /\ \A k \in CreatesOf(i) : resp[i].config = createLog[i][k].cfg

\* C4: once an invocation's NotifyUpdate has failed after its Create
\* succeeded, the invocation has made that one store call and no other, and
\* the configuration its Create stored is in the store, as stored, from then on.
C4_NoRollback ==
    \A i \in Invs :
        (CreateSucceeded(i) /\ NotifyFailed(i)) =>
            /\ pc[i] = "Done"
            /\ Outcome(resp[i]) = "NotificationFailed"
            /\ Cardinality(CreatesOf(i)) = 1
            /\ \A k \in CreatesOf(i) :
                   store[createLog[i][k].cfg.name] = createLog[i][k].cfg

\* C4 witness: after the failed notification another invocation tried to
\* create a different configuration of the same name, and the first
\* invocation's configuration is still the one stored.
C4_Witness ==
    \E i, j \in Invs :
        /\ i # j
        /\ CreateSucceeded(i) /\ NotifyFailed(i)
        /\ i \in doneBefore[j]
        /\ \E k \in CreatesOf(j) :
               /\ createLog[j][k].cfg.name = config[i].name
               /\ createLog[j][k].cfg # config[i]
        /\ store[config[i].name] = config[i]

\* The store answered invocation i as a store that fails Create only on a
\* name it already holds, and the notifier did not fail for i.
StubsBehaved(i) ==
    /\ \A k \in CreatesOf(i) : createLog[i][k].err \in {NoErr, ErrCollision}
    /\ ~NotifyFailed(i)

\* Only the invocations in S called Create for the name n.
OnlyCreators(S, n) ==
    \A j \in Invs \ S : \A k \in CreatesOf(j) : createLog[j][k].cfg.name # n

\* The notifications sent for the name n.
NotificationsFor(n) ==
    UNION {{<<i, k>> : k \in {m \in NotifiesOf(i) : notifyLog[i][m].cfg.name = n}} :
           i \in Invs}

\* C5: with a store that rejects a name it already holds and a notifier that
\* succeeds, an import of a valid document whose name no other invocation
\* stored (the first import) ends Imported, and an import of the same document
\* that begins after it has ended ends PersistenceFailed (on the collision);
\* the second sends no notification, so exactly one notification is sent for
\* the name.
C5_SecondImportCollides ==
    /\ \A i \in Invs :
        ( /\ pc[i] = "Done"
          /\ content[i] \in ValidDocs
          /\ StubsBehaved(i)
          /\ \A j \in Invs \ {i} : \A k \in CreatesOf(j) :
                 createLog[j][k].cfg.name = NameOf(content[i]) =>
                     createLog[j][k].err # NoErr ) =>
            Outcome(resp[i]) = "Imported"
    /\ \A i, j \in Invs :
        ( /\ i # j
          /\ pc[i] = "Done" /\ pc[j] = "Done"
          /\ i \in doneBefore[j]
          /\ content[i] \in ValidDocs /\ content[j] = content[i]
          /\ StubsBehaved(i) /\ StubsBehaved(j)
          /\ OnlyCreators({i, j}, NameOf(content[i])) ) =>
            /\ Outcome(resp[i]) = "Imported"
            /\ Outcome(resp[j]) = "PersistenceFailed"
            /\ resp[j].err = ErrCollision
            /\ NotifiesOf(j) = {}
            /\ Cardinality(NotificationsFor(NameOf(content[i]))) = 1

\* C5 witness: the same document, with the same form fields, imported twice in
\* sequence.
C5_Witness ==
    \E i, j \in Invs :
        /\ i # j
        /\ pc[i] = "Done" /\ pc[j] = "Done"
        /\ i \in doneBefore[j]
        /\ content[i] \in ValidDocs /\ content[j] = content[i]
        /\ tenant[j] = tenant[i] /\ prefix[j] = prefix[i]
        /\ StubsBehaved(i) /\ StubsBehaved(j)
        /\ CreatesOf(i) # {} /\ CreatesOf(j) # {}

\* C6: of two invocations that both called Create with the same name, on a
\* store whose only failure is the collision, exactly one Create succeeded,
\* whatever the interleaving; the other got the collision error, ended
\* PersistenceFailed, sent no notification, and the stored record is the
\* winner's.
C6_SameNameRace ==
    \A i, j \in Invs :
        ( /\ i # j
          /\ CreatesOf(i) # {} /\ CreatesOf(j) # {}
          /\ config[i].name = config[j].name
          /\ \A k \in CreatesOf(i) : createLog[i][k].err \in {NoErr, ErrCollision}
          /\ \A k \in CreatesOf(j) : createLog[j][k].err \in {NoErr, ErrCollision}
          /\ OnlyCreators({i, j}, config[i].name) ) =>
            /\ CreateSucceeded(i) # CreateSucceeded(j)
            /\ \A w, l \in {i, j} :
                   (CreateSucceeded(w) /\ ~CreateSucceeded(l)) =>
                       /\ \A k \in CreatesOf(l) : createLog[l][k].err = ErrCollision
                       /\ pc[l] = "Done"
                       /\ Outcome(resp[l]) = "PersistenceFailed"
                       /\ NotifiesOf(l) = {}
                       /\ \A k \in CreatesOf(w) :
                              store[config[w].name] = createLog[w][k].cfg

\* C6 witness: two overlapping invocations converted to the same name with
\* different addressing and both have called Create: the loser has ended
\* while the winner, whose Create came first, is still running.
C6_Witness ==
    \E i, j \in Invs :
        /\ i # j
        /\ pc[i] = "Notifying" /\ pc[j] = "Done"
        /\ CreatesOf(i) # {} /\ CreatesOf(j) # {}
        /\ config[i].name = config[j].name
        /\ config[i] # config[j]
        /\ CreateSucceeded(i) /\ ~CreateSucceeded(j)
        /\ \A k \in CreatesOf(j) : createLog[j][k].err = ErrCollision

\* Invocation i has been through the conversion step.
Converted(i) == pc[i] \in {"Persisting", "Notifying", "Done"} /\ content[i] \in Contents

\* C7: an invocation that has been through the conversion step made exactly
\* one converter call: Convert(content) if and only if the tenant and the
\* prefix are both empty, and otherwise ConvertWithOptions(content, tenant,
\* prefix) with both values as supplied.
C7_HintDecisionRule ==
    \A i \in Invs :
        /\ Converted(i) =>
            /\ Len(convLog[i]) = 1
            /\ LET call == convLog[i][1].call
               IN /\ call.fn \in {"Convert", "ConvertWithOptions"}
                  /\ call.fn = "Convert" <=> (tenant[i] = "" /\ prefix[i] = "")
                  /\ call.fn = "Convert" => call.args = <<content[i]>>
                  /\ call.fn = "ConvertWithOptions" =>
                         call.args = <<content[i], tenant[i], prefix[i]>>
        /\ ~Converted(i) => convLog[i] = <<>>

\* C7 witness: one invocation converted by Convert and another by
\* ConvertWithOptions with a tenant and a prefix that differ.
C7_Witness ==
    \E i, j \in Invs :
        /\ Converted(i) /\ Converted(j)
        /\ convLog[i][1].call.fn = "Convert"
        /\ convLog[j][1].call.fn = "ConvertWithOptions"
        /\ tenant[j] # "" /\ prefix[j] # "" 

\* Exactly one of the two form fields of invocation i is empty.
PartialHint(i) == (tenant[i] = "") # (prefix[i] = "")

\* C8: for a valid document with exactly one of tenant and prefix empty, the
\* converter is called through ConvertWithOptions with the empty string for
\* the empty field, and the configuration carries both fields as supplied:
\* the empty one is empty, not the converter's default.
C8_ExplicitEmptyOverridesDefault ==
    \A i \in Invs :
        (Converted(i) /\ content[i] \in ValidDocs /\ PartialHint(i)) =>
            /\ Len(convLog[i]) = 1
            /\ convLog[i][1].call =
                   [fn |-> "ConvertWithOptions",
                    args |-> <<content[i], tenant[i], prefix[i]>>]
            /\ config[i].tenant = tenant[i]
            /\ config[i].prefix = prefix[i]
            /\ tenant[i] = "" => config[i].tenant # DefaultTenant
            /\ prefix[i] = "" => config[i].prefix # DefaultPrefix
            /\ \A k \in CreatesOf(i) : createLog[i][k].cfg = config[i]

\* C8 witness: both partial hints, each stored with its empty field.
C8_Witness ==
    \E i, j \in Invs :
        /\ CreateSucceeded(i) /\ CreateSucceeded(j)
        /\ tenant[i] # "" /\ prefix[i] = ""
        /\ tenant[j] = "" /\ prefix[j] # ""
        /\ store[config[i].name].prefix = ""
        /\ store[config[j].name].tenant = ""

\* The error a step of invocation i returned, NoErr when it returned none or
\* was never called.
ConvertErrOf(i) == IF ConversionFailed(i) THEN convLog[i][1].err ELSE NoErr
CreateErrOf(i) ==
    IF CreateFailed(i) THEN createLog[i][CHOOSE k \in CreatesOf(i) : TRUE].err ELSE NoErr
NotifyErrOf(i) ==
    IF NotifyFailed(i) THEN notifyLog[i][CHOOSE k \in NotifiesOf(i) : TRUE].err ELSE NoErr

\* C9: an ended invocation answers Imported if and only if its conversion,
\* its Create and its NotifyUpdate all succeeded; when a step failed the
\* answer is that step's failure outcome, with that step's error as reason.
C9_EveryFailureSurfaced ==
    \A i \in Invs :
        (pc[i] = "Done" /\ content[i] \in Contents) =>
            /\ Outcome(resp[i]) = "Imported" <=>
                   (ConversionSucceeded(i) /\ CreateSucceeded(i) /\ NotifySucceeded(i))
            /\ ConversionFailed(i) =>
                   /\ Outcome(resp[i]) = "Rejected"
                   /\ resp[i].err = ConvertErrOf(i)
            /\ CreateFailed(i) =>
                   /\ Outcome(resp[i]) = "PersistenceFailed"
                   /\ resp[i].err = CreateErrOf(i)
            /\ NotifyFailed(i) =>
                   /\ Outcome(resp[i]) = "NotificationFailed"
                   /\ resp[i].err = NotifyErrOf(i)
            /\ Outcome(resp[i]) # "Imported" => resp[i].err # NoErr
            /\ ConversionFailed(i) \/ CreateFailed(i) \/ NotifyFailed(i)
                   \/ Outcome(resp[i]) = "Imported"

\* C9 witness: one invocation ended Imported and another ended on a failed
\* notification.
C9_Witness ==
    \E i, j \in Invs :
        /\ pc[i] = "Done" /\ pc[j] = "Done"
        /\ Outcome(resp[i]) = "Imported"
        /\ NotifyFailed(j)
        /\ Outcome(resp[j]) = "NotificationFailed"

\* C10: in an invocation that ended Imported, Create was called once and
\* NotifyUpdate was called once, and the configuration Create got, the one
\* NotifyUpdate got and the one in the answer are the one the converter returned.
C10_ConfigUnchanged ==
    \A i \in Invs :
        (pc[i] = "Done" /\ Outcome(resp[i]) = "Imported") =>
            /\ Len(convLog[i]) = 1
            /\ convLog[i][1].cfg \in Configs
            /\ Cardinality(CreatesOf(i)) = 1
            /\ Cardinality(NotifiesOf(i)) = 1
            /\ \A k \in CreatesOf(i) : createLog[i][k].cfg = convLog[i][1].cfg
            /\ \A k \in NotifiesOf(i) : notifyLog[i][k].cfg = convLog[i][1].cfg
            /\ resp[i].config = convLog[i][1].cfg

\* C10 witness: an import with explicit tenant and prefix ended Imported.
C10_Witness ==
    \E i \in Invs :
        /\ pc[i] = "Done"
        /\ Outcome(resp[i]) = "Imported"
        /\ resp[i].config.tenant = "acme"
        /\ resp[i].config.prefix = "/v1"

\* The upload of invocation i was empty.
EmptyInput(i) == resp[i].text = "Failed to read file: " /\ resp[i].err = ErrEOF

\* The upload of invocation i could not be read.
UnreadableInput(i) == resp[i].text = "Failed to read file: " /\ resp[i].err = ErrRead

\* C11: an invocation whose upload is empty or cannot be read ends with the
\* outcome Rejected, the caller-input error, and calls neither store.Create
\* nor notifier.NotifyUpdate.
C11_EmptyOrUnreadableRejected ==
    \A i \in Invs :
        (pc[i] = "Done" /\ (EmptyInput(i) \/ UnreadableInput(i))) =>
            /\ Outcome(resp[i]) = "Rejected"
            /\ resp[i].kind = "ErrBadRequest"
            /\ CreatesOf(i) = {}
            /\ NotifiesOf(i) = {}

\* Invocation i was given malformed bytes and has been through the conversion.
RejectedRun(i) == Converted(i) /\ content[i] \in MalformedDocs

\* C12: the answer to malformed bytes depends on the bytes and the hint only:
\* it is Rejected with the converter's error for those bytes as reason,
\* whatever the store holds and whatever ran before, so two invocations on the
\* same malformed bytes and hint get the same answer.
C12_RejectionIdempotent ==
    /\ \A i \in Invs :
          RejectedRun(i) =>
              /\ Outcome(resp[i]) = "Rejected"
              /\ resp[i].err = ErrMalformed
              /\ resp[i].config = NoConfig
    /\ \A i, j \in Invs :
          ( /\ RejectedRun(i) /\ RejectedRun(j)
            /\ content[i] = content[j]
            /\ tenant[i] = tenant[j]
            /\ prefix[i] = prefix[j] ) => resp[i] = resp[j]

\* C12 witness: malformed bytes were rejected by an invocation that began
\* after another one had stored a configuration and notified.
C12_Witness ==
    \E i, j \in Invs :
        /\ RejectedRun(i)
        /\ j \in doneBefore[i]
        /\ Outcome(resp[j]) = "Imported"
        /\ store[config[j].name] = config[j]

\* The four outcomes of the import workflow.
TerminalOutcomes == {"Imported", "Rejected", "PersistenceFailed", "NotificationFailed"}

\* C13: when every call to the converter, the store and the notifier returns,
\* an invocation that has read its request ends, with one of the four
\* outcomes: again and again no invocation is left between reading its
\* request and its end, an invocation that has read its request never
\* returns to the start, and one that has ended after reading its request
\* has answered with one of the four outcomes.  It has answered nothing
\* before it ends, and once it has ended its one answer is never replaced.
C13_EndsWithOneOutcome ==
    /\ []<>(\A i \in Invs : pc[i] \in {"Start", "Done"})
    /\ [][\A i \in Invs : pc[i] # "Start" => pc'[i] # "Start"]_vars
    /\ [](\A i \in Invs : (pc[i] = "Done" /\ content[i] \in Contents) =>
              Outcome(resp[i]) \in TerminalOutcomes)
    /\ [](\A i \in Invs : pc[i] # "Done" => resp[i] = NoResp)
    /\ [][\A i \in Invs : pc[i] = "Done" =>
              (pc'[i] = "Done" /\ resp'[i] = resp[i])]_vars

\* C13 witness: two invocations that read their requests have ended, with
\* different outcomes.
C13_Witness ==
    \E i, j \in Invs :
        /\ pc[i] = "Done" /\ pc[j] = "Done"
        /\ content[i] \in Contents /\ content[j] \in Contents
        /\ Outcome(resp[i]) = "NotificationFailed"
        /\ Outcome(resp[j]) = "PersistenceFailed"

\* The order of the positions of an invocation.
Rank(p) ==
    CASE p = "Start" -> 0
      [] p = "Converting" -> 1
      [] p = "Persisting" -> 2
      [] p = "Notifying" -> 3
      [] OTHER -> 4

\* C14: an invocation calls the converter, store.Create and
\* notifier.NotifyUpdate at most once each; every step it takes moves it
\* forward (Start, Converting, Persisting, Notifying, ended), never back or in
\* place; and once it has ended it makes no further call.
C14_NoRetryEdge ==
    /\ [](\A i \in Invs :
            /\ Len(convLog[i]) <= 1
            /\ Len(createLog[i]) <= 1
            /\ Len(notifyLog[i]) <= 1
            /\ Len(createLog[i]) = 1 => Len(convLog[i]) = 1
            /\ Len(notifyLog[i]) = 1 => Len(createLog[i]) = 1)
    /\ [][\A i \in Invs :
            /\ Rank(pc'[i]) >= Rank(pc[i])
            /\ <<convLog[i], createLog[i], notifyLog[i]>>
                   # <<convLog'[i], createLog'[i], notifyLog'[i]>>
                 => Rank(pc'[i]) > Rank(pc[i])
            /\ pc[i] = "Done" =>
                 /\ pc'[i] = "Done"
                 /\ convLog'[i] = convLog[i]
                 /\ createLog'[i] = createLog[i]
                 /\ notifyLog'[i] = notifyLog[i]]_vars

\* C14 witness: an invocation ended on a failed Create after one converter
\* call and one Create call, another on a failed notification after one call
\* of each.
C14_Witness ==
    \E i, j \in Invs :
        /\ pc[i] = "Done" /\ CreateFailed(i)
        /\ Len(convLog[i]) = 1 /\ Len(createLog[i]) = 1 /\ Len(notifyLog[i]) = 0
        /\ pc[j] = "Done" /\ NotifyFailed(j)
        /\ Len(convLog[j]) = 1 /\ Len(createLog[j]) = 1 /\ Len(notifyLog[j]) = 1

\* Invocation i left the split state: its Create stored the configuration
\* and its NotifyUpdate failed.
SplitState(i) == pc[i] = "Done" /\ CreateSucceeded(i) /\ NotifyFailed(i)

\* C15: after an invocation ended NotificationFailed, a later invocation on
\* the same document ends PersistenceFailed without calling NotifyUpdate, and
\* no invocation at all has called NotifyUpdate successfully, or at all apart
\* from the failed call, for the stored name.
C15_SplitStateNotRepaired ==
    \A i \in Invs :
        SplitState(i) =>
            /\ Outcome(resp[i]) = "NotificationFailed"
            /\ store[config[i].name] = config[i]
            /\ \A j \in Invs \ {i} :
                   /\ \A k \in NotifiesOf(j) :
                          notifyLog[j][k].cfg.name # config[i].name
                   /\ ( /\ i \in doneBefore[j]
                        /\ content[j] = content[i]
                        /\ pc[j] = "Done" ) =>
                          /\ Outcome(resp[j]) = "PersistenceFailed"
                          /\ CreateFailed(j)
                          /\ NotifiesOf(j) = {}

\* C15 witness: the same document was imported again, with the same hint,
\* after the split state, and the store answered with the collision.
C15_Witness ==
    \E i, j \in Invs :
        /\ i # j
        /\ SplitState(i)
        /\ i \in doneBefore[j]
        /\ content[j] = content[i]
        /\ tenant[j] = tenant[i] /\ prefix[j] = prefix[i]
        /\ pc[j] = "Done"
        /\ resp[j].err = ErrCollision

\* C16: the context handed to store.Create and the one handed to
\* notifier.NotifyUpdate are both the caller's request context, the same
\* value, with no timeout added.  So when the caller cancels after Create
\* succeeded and NotifyUpdate fails on the cancelled context, the invocation
\* ends NotificationFailed with the configuration stored and not notified.
C16_CallerContextPassedThrough ==
    \A i \in Invs :
        /\ \A k \in CreatesOf(i) :
               createLog[i][k].ctx = [request |-> i, timeout |-> "none"]
        /\ \A k \in NotifiesOf(i) :
               /\ notifyLog[i][k].ctx = [request |-> i, timeout |-> "none"]
               /\ \A m \in CreatesOf(i) : notifyLog[i][k].ctx = createLog[i][m].ctx
               /\ notifyLog[i][k].err = ErrCanceled =>
                      /\ pc[i] = "Done"
                      /\ CreateSucceeded(i)
                      /\ Outcome(resp[i]) = "NotificationFailed"
                      /\ resp[i].err = ErrCanceled
                      /\ store[config[i].name] = config[i]
                      /\ ~NotifySucceeded(i)

\* C16 witness: the caller's context was cancelled after Create had stored
\* the configuration, and NotifyUpdate failed on it.
C16_Witness ==
    \E i \in Invs :
        /\ CreateSucceeded(i)
        /\ \E k \in NotifiesOf(i) : notifyLog[i][k].err = ErrCanceled
        /\ store[config[i].name] = config[i]

\* No other invocation converted to the name invocation i converted to.
Solo(i) == \A j \in Invs \ {i} : config[j].name # config[i].name

\* The configuration the converter returns for a valid document and a hint.
ExpectedConfig(c, t, p) ==
    [name |-> NameOf(c),
     tenant |-> IF t = "" /\ p = "" THEN DefaultTenant ELSE t,
     prefix |-> IF t = "" /\ p = "" THEN DefaultPrefix ELSE p]

\* C17: an invocation whose configuration name no other invocation shares
\* behaves, under every interleaving, as it would alone: its configuration
\* comes from its own bytes and hint, its Create never sees a collision, what
\* it stores and notifies is its own configuration, and its answer follows
\* from the errors of its own calls.
C17_DifferentNamesIndependent ==
    \A i \in Invs :
        (Converted(i) /\ content[i] \in ValidDocs /\ Solo(i)) =>
            /\ config[i] = ExpectedConfig(content[i], tenant[i], prefix[i])
            /\ \A k \in CreatesOf(i) :
                   /\ createLog[i][k].cfg = config[i]
                   /\ createLog[i][k].err # ErrCollision
            /\ \A k \in NotifiesOf(i) : notifyLog[i][k].cfg = config[i]
            /\ store[config[i].name] = IF CreateSucceeded(i) THEN config[i] ELSE NoConfig
            /\ pc[i] = "Done" =>
                   /\ CreateFailed(i) =>
                          /\ Outcome(resp[i]) = "PersistenceFailed"
                          /\ resp[i].err = CreateErrOf(i)
                   /\ NotifyFailed(i) =>
                          /\ Outcome(resp[i]) = "NotificationFailed"
                          /\ resp[i].err = NotifyErrOf(i)
                   /\ (~CreateFailed(i) /\ ~NotifyFailed(i)) =>
                          /\ Outcome(resp[i]) = "Imported"
                          /\ resp[i].config = config[i]

\* C17 witness: two overlapping invocations (neither had ended when the other
\* read its request) converted to different names and both imported their own
\* configuration.
C17_Witness ==
    \E i, j \in Invs :
        /\ i \notin doneBefore[j] /\ j \notin doneBefore[i]
        /\ config[i].name = "serverA" /\ config[j].name = "serverB"
        /\ Outcome(resp[i]) = "Imported" /\ Outcome(resp[j]) = "Imported"
        /\ store["serverA"] = config[i] /\ store["serverB"] = config[j]

\* All calls of notifier.NotifyUpdate, and all calls of store.Create that
\* returned no error, as (invocation, position) pairs.
NotifyCalls == UNION {{<<i, k>> : k \in NotifiesOf(i)} : i \in Invs}
SuccessfulCreates ==
    UNION {{<<i, k>> : k \in {m \in CreatesOf(i) : createLog[i][m].err = NoErr}} :
           i \in Invs}

\* C18: every configuration notifier.NotifyUpdate was called with is in the
\* store, as notified, and NotifyUpdate has been called no more often than
\* store.Create has succeeded.
C18_NotifiedSubsetOfStored ==
    /\ \A i \in Invs : \A k \in NotifiesOf(i) :
           /\ notifyLog[i][k].cfg \in Configs
           /\ store[notifyLog[i][k].cfg.name] = notifyLog[i][k].cfg
    /\ Cardinality(NotifyCalls) <= Cardinality(SuccessfulCreates)

\* C18 witness: one invocation stored and notified, another stored and has
\* not notified yet.
C18_Witness ==
    \E i, j \in Invs :
        /\ NotifySucceeded(i)
        /\ CreateSucceeded(j) /\ NotifiesOf(j) = {}
        /\ Cardinality(NotifyCalls) < Cardinality(SuccessfulCreates)

====
